---- MODULE Spec2Model ----
(***************************************************************************)
(* Healthy City dashboard: the service layer (src/main.py) and the         *)
(* presentation layer (src/app.py).                                        *)
(*                                                                         *)
(* Conventions of the model                                                *)
(*   - a city name is a sequence of one-character strings, so that         *)
(*     str.lower() and str.title() are computed character by character;    *)
(*   - a coordinate is a pair of integers in units of 1e-4 degree;         *)
(*   - a float is a fixed-point number [whole, frac] of 8 decimals; a      *)
(*     formatted float f"{x:.Nf}" is the record [neg, digits] of its sign  *)
(*     and of round(|x| * 10^N);                                           *)
(*   - an outcome of a Python call is [kind, cls, status, detail, value]:  *)
(*     kind "ok" (a return), "http" (an HTTPException) or "exc" (any other *)
(*     exception, of class cls).                                           *)
(***************************************************************************)
EXTENDS Integers, Sequences, FiniteSets, TLC

VARIABLES
    env,        \* the service process's configuration: OPENWEATHER_API_KEY set, GOOGLE_CLOUD_PROJECT set
    svc,        \* the service process: "boot" before main.py's module code ran, "serving" after
    ee_ready,   \* whether ee.Initialize() succeeded
    page,       \* st.session_state.page (NoValue: not yet set)
    city,       \* st.session_state.city (NoValue: not yet set)
    pc,         \* the dashboard script's position
    event,      \* the widget event of the running script run
    action,     \* the user action being processed, with its count of service calls
    shown,      \* the overview cards whose "View Full Analysis" button is on screen
    banner,     \* the st.error banner of the last get_api_data call of the script run
    last        \* the request the service handled last in the current user action, with its response

vars == <<env, svc, ee_ready, page, city, pc, event, action, shown, banner, last>>

(***************************************************************************)
(* Bounds of the model.                                                    *)
(***************************************************************************)
\* band values (reflectances of the composite's representative pixel) range over 0..MaxBand
MaxBand == 4
\* the number of images that can pass the region / cloud-cover / date filter
MaxImages == 1
\* the draws of the random generator
MaxRandom == 1

(***************************************************************************)
(* Strings.                                                                *)
(***************************************************************************)
Uppers == <<"A","B","C","D","E","F","G","H","I","J","K","L","M",
            "N","O","P","Q","R","S","T","U","V","W","X","Y","Z">>

Lowers == <<"a","b","c","d","e","f","g","h","i","j","k","l","m",
            "n","o","p","q","r","s","t","u","v","w","x","y","z">>

IndexIn(seq, c) == CHOOSE i \in 1..Len(seq) : seq[i] = c

IsUpper(c) == \E i \in 1..Len(Uppers) : Uppers[i] = c

IsLower(c) == \E i \in 1..Len(Lowers) : Lowers[i] = c

lower_char(c) == IF IsUpper(c) THEN Lowers[IndexIn(Uppers, c)] ELSE c

upper_char(c) == IF IsLower(c) THEN Uppers[IndexIn(Lowers, c)] ELSE c

\* str.lower()
lower(s) == [i \in 1..Len(s) |-> lower_char(s[i])]

\* str.title(): a cased character is upper-cased after an uncased one (or at the
\* start) and lower-cased after a cased one
title(s) ==
    [i \in 1..Len(s) |->
        IF i = 1 \/ ~(IsUpper(s[i-1]) \/ IsLower(s[i-1]))
        THEN upper_char(s[i]) ELSE lower_char(s[i])]

(***************************************************************************)
(* Outcomes of calls.                                                      *)
(***************************************************************************)
NoValue == [none |-> TRUE]

Detail(text, cause) == [text |-> text, cause |-> cause]

NoDetail == Detail("", "")

Return(v) ==
    [kind |-> "ok", cls |-> "", status |-> 200, detail |-> NoDetail, value |-> v]

HTTPException(status_code, detail) ==
    [kind |-> "http", cls |-> "HTTPException", status |-> status_code,
     detail |-> detail, value |-> NoValue]

\* an exception of class cls that is not an HTTPException; `what` is str(e)
Exception(cls, what) ==
    [kind |-> "exc", cls |-> cls, status |-> 0, detail |-> Detail("", what),
     value |-> NoValue]

\* the outcome of a call that was not made
NotCalled ==
    [kind |-> "none", cls |-> "", status |-> 0, detail |-> NoDetail, value |-> NoValue]

(***************************************************************************)
(* src/main.py: the city resolver.                                         *)
(***************************************************************************)
shimoga    == <<"s","h","i","m","o","g","a">>
challakere == <<"c","h","a","l","l","a","k","e","r","e">>
mumbai     == <<"m","u","m","b","a","i">>
tokyo      == <<"t","o","k","y","o">>
london     == <<"l","o","n","d","o","n">>
new_york   == <<"n","e","w"," ","y","o","r","k">>

known_cities ==
    (shimoga    :> <<139299, 755681>>) @@
    (challakere :> <<143135, 766534>>) @@
    (mumbai     :> <<190760, 728777>>) @@
    (tokyo      :> <<356762, 1396503>>) @@
    (london     :> <<515072, -1276>>) @@
    (new_york   :> <<407128, -740060>>)

\* What the geocoding API can answer to one GET: a JSON list (empty, or with an
\* entry that has lat and lon, or with an entry that lacks them), a non-success
\* status (raise_for_status), no answer within 10 s, or no connection.
GeoReplies ==
    { [kind |-> "json", data |-> <<>>],
      [kind |-> "json", data |-> << [lat |-> 488566, lon |-> 23522] >>],
      [kind |-> "json", data |-> << [name |-> "?"] >>],
      [kind |-> "http_status", data |-> <<>>],
      [kind |-> "timeout", data |-> <<>>],
      [kind |-> "connection", data |-> <<>>] }

\* no geocoding call
NoReply == [kind |-> "none", data |-> <<>>]

\* the lookup key without the lower-casing
city_lower_missing(city_name) == city_name

\* city_lower = city_name.lower()
city_lower(city_name) == lower(city_name)

\* the try block without response.raise_for_status(): an error body is indexed
geocode_try_no_raise(reply) ==
    IF reply.kind \in {"timeout", "connection"}
    THEN Exception("RequestException", reply.kind)
    ELSE IF reply.kind = "json" /\ reply.data = <<>>
    THEN HTTPException(404, Detail("City '{city_name}' not found.", ""))
    ELSE IF reply.kind = "json" /\ {"lat", "lon"} \subseteq DOMAIN reply.data[1]
    THEN Return(<<reply.data[1].lat, reply.data[1].lon>>)
    ELSE Exception("KeyError", "0")

\* the body of the try block: requests.get, raise_for_status, json, data[0]
geocode_try(reply) ==
    IF reply.kind # "json"
    THEN Exception("RequestException", reply.kind)
    ELSE IF reply.data = <<>>
    THEN HTTPException(404, Detail("City '{city_name}' not found.", ""))
    ELSE IF {"lat", "lon"} \subseteq DOMAIN reply.data[1]
    THEN Return(<<reply.data[1].lat, reply.data[1].lon>>)
    ELSE Exception("KeyError", "'lat'")

\* the handler written as `except requests.exceptions.Timeout`
geocode_except_timeout_only(o) ==
    IF o.kind = "exc" /\ o.cls = "RequestException" /\ o.detail.cause = "timeout"
    THEN HTTPException(503, Detail("Geocoding service is unavailable.", ""))
    ELSE o

\* the handler written as `except Exception`, which catches the resolver's own 404
geocode_except_any(o) ==
    IF o.kind # "ok"
    THEN HTTPException(503, Detail("Geocoding service is unavailable.", ""))
    ELSE o

\* except requests.exceptions.RequestException
geocode_except(o) ==
    IF o.kind = "exc" /\ o.cls = "RequestException"
    THEN HTTPException(503, Detail("Geocoding service is unavailable.", ""))
    ELSE o

\* the resolver with one retry of a failed geocoding call
get_city_coords_retry(city_name, api_key, reply) ==
    IF lower(city_name) \in DOMAIN known_cities
    THEN [out |-> Return(known_cities[lower(city_name)]), geo_calls |-> 0]
    ELSE IF ~api_key
    THEN [out |-> HTTPException(500, Detail("OpenWeatherMap API key is not configured.", "")),
          geo_calls |-> 0]
    ELSE [out |-> geocode_except(geocode_try(reply)),
          geo_calls |-> IF geocode_try(reply).cls = "RequestException" THEN 2 ELSE 1]

\* get_city_coords: the outcome, and the number of geocoding HTTP calls issued
get_city_coords(city_name, api_key, reply) ==
    IF city_lower(city_name) \in DOMAIN known_cities
    THEN [out |-> Return(known_cities[city_lower(city_name)]), geo_calls |-> 0]
    ELSE IF ~api_key
    THEN [out |-> HTTPException(500, Detail("OpenWeatherMap API key is not configured.", "")),
          geo_calls |-> 0]
    ELSE [out |-> geocode_except(geocode_try(reply)), geo_calls |-> 1]

(***************************************************************************)
(* Floats: x = whole + frac / FxUnit with 0 <= frac < FxUnit.              *)
(***************************************************************************)
FxUnit == 10^8

Fx(whole, frac) == [whole |-> whole, frac |-> frac]

FxAdd(x, y) ==
    LET f == x.frac + y.frac
    IN  Fx(x.whole + y.whole + (f \div FxUnit), f % FxUnit)

FxSub(x, y) ==
    LET f == x.frac - y.frac
    IN  Fx(x.whole - y.whole + (f \div FxUnit), f % FxUnit)

\* x * k for a small integer k (0..20)
FxTimes(x, k) ==
    LET f == x.frac * k
    IN  Fx(x.whole * k + (f \div FxUnit), f % FxUnit)

\* n / d for integers n and d > 0, cut to FxUnit
FxRatio(n, d) ==
    LET w  == n \div d
        r0 == n - w * d
        q1 == (r0 * 10^4) \div d
        r1 == (r0 * 10^4) % d
        q2 == (r1 * 10^4) \div d
    IN  Fx(w, q1 * 10^4 + q2)

\* f"{x:.Nf}": the sign and the digits of x rounded half-even to N decimals
Format(x, N) ==
    LET unit    == 10^(8 - N)
        base    == x.whole * 10^N + (x.frac \div unit)
        r       == x.frac % unit
        rounded == IF 2 * r > unit \/ (2 * r = unit /\ base % 2 = 1)
                   THEN base + 1 ELSE base
    IN  [neg |-> x.whole < 0, digits |-> IF rounded < 0 THEN -rounded ELSE rounded]

(***************************************************************************)
(* The analytics platform, as the two pipelines see it.  The client        *)
(* library builds a query lazily; only getInfo() sends it.                 *)
(*   images: how many images pass the region, cloud-cover and date filter  *)
(*   fault:  the platform fails the query (quota, time-out, outage)        *)
(*   masked: no pixel of the region carries a value for the derived band   *)
(*   b8, b4: the near-infrared and red bands of the median composite       *)
(*   dn:     the ST_B10 value of the latest image                          *)
(***************************************************************************)
None == [none |-> TRUE, whole |-> 0, frac |-> 0]

Some(x) == [none |-> FALSE, whole |-> x.whole, frac |-> x.frac]

\* no query sent (no image, no pixel)
NoSat == [images |-> -1, fault |-> FALSE, masked |-> TRUE, b8 |-> 0, b4 |-> 0, dn |-> 0]

Sat(images, fault, masked, b8, b4, dn) ==
    [images |-> images, fault |-> fault, masked |-> masked, b8 |-> b8, b4 |-> b4, dn |-> dn]

\* The states of the platform a greencover query can meet: a fault, no image, a
\* region with no valid pixel, or a composite with bands b8 and b4 (not both 0:
\* the reflectances of a land region are positive).
GreenSat ==
    { Sat(0, TRUE, FALSE, 0, 0, 0), Sat(0, FALSE, FALSE, 0, 0, 0) }
    \cup { Sat(n, FALSE, TRUE, 0, 0, 0) : n \in 1..MaxImages }
    \cup { s \in { Sat(n, FALSE, FALSE, a, b, 0) :
                     n \in 1..MaxImages, a \in 0..MaxBand, b \in 0..MaxBand } :
             s.b8 + s.b4 > 0 }

\* The states of the platform a heatmap query can meet.
HeatSat ==
    { Sat(0, TRUE, FALSE, 0, 0, 0), Sat(0, FALSE, FALSE, 0, 0, 0) }
    \cup { Sat(n, FALSE, TRUE, 0, 0, 0) : n \in 1..MaxImages }
    \cup { Sat(n, FALSE, FALSE, 0, 0, d) : n \in 1..MaxImages, d \in {100, 44000, 65535} }

\* a client library that builds the geometry without having been initialized
ee_Geometry_Point_unchecked(ready) == Return(NoValue)

\* ee.Geometry.Point(lon, lat): the first use of the client library
ee_Geometry_Point(ready) ==
    IF ready THEN Return(NoValue)
    ELSE Exception("EEException", "Earth Engine client library not initialized.")

\* image.normalizedDifference(['B8', 'B4']): (B8 - B4) / (B8 + B4)
normalizedDifference(b8, b4) == FxRatio(b8 - b4, b8 + b4)

\* ndvi.reduceRegion(mean, area_of_interest, 30).getInfo() on the median of the
\* filtered collection: the median of no image has no band, so the band math fails
green_stats(sat) ==
    IF sat.fault
    THEN Exception("EEException", "Computation failed.")
    ELSE IF sat.images = 0
    THEN Exception("EEException", "Image.normalizedDifference: No band named 'B8'.")
    ELSE IF sat.masked
    THEN Return(None)
    ELSE Return(Some(normalizedDifference(sat.b8, sat.b4)))

\* the rescaling with the offset applied after the factor: avg_ndvi * 50 + 1
green_cover_percentage_misplaced(avg_ndvi) ==
    FxAdd(FxTimes(FxTimes(avg_ndvi, 5), 10), Fx(1, 0))

\* green_cover_percentage = (avg_ndvi + 1) * 50
green_cover_percentage(avg_ndvi) == FxTimes(FxTimes(FxAdd(avg_ndvi, Fx(1, 0)), 5), 10)

\* lines 71-99: the try block of get_green_cover_real
green_cover_try(name, resolved, ready, sat) ==
    IF resolved.kind # "ok" THEN [out |-> resolved, ee_calls |-> 0]
    ELSE IF ee_Geometry_Point(ready).kind # "ok"
    THEN [out |-> ee_Geometry_Point(ready), ee_calls |-> 0]
    ELSE IF green_stats(sat).kind # "ok"
    THEN [out |-> green_stats(sat), ee_calls |-> 1]
    ELSE IF green_stats(sat).value.none
    THEN [out |-> HTTPException(404, Detail("Could not calculate NDVI for this area.", "")),
          ee_calls |-> 1]
    ELSE [out |-> Return(
            [city |-> title(name),
             location |-> [lat |-> resolved.value[1], lon |-> resolved.value[2]],
             avg_coverage |-> Format(green_cover_percentage(green_stats(sat).value), 2),
             avg_ndvi |-> Format(green_stats(sat).value, 4),
             data_source |-> "Sentinel-2 Satellite"]),
          ee_calls |-> 1]

\* the handlers without `except HTTPException: raise e`
endpoint_except_wrap_all(o) ==
    IF o.kind # "ok"
    THEN HTTPException(500, Detail("An Earth Engine error occurred: ", o.detail.cause))
    ELSE o

\* except HTTPException: raise e / except Exception: raise HTTPException(500, ...)
endpoint_except(o) ==
    IF o.kind = "exc"
    THEN HTTPException(500, Detail("An Earth Engine error occurred: ", o.detail.cause))
    ELSE o

\* image.select('ST_B10').multiply(0.00341802).add(149.0), then subtract(273.15)
scale_thermal(dn) ==
    LET a  == dn * 3418
        lo == (a % 10^6) * 100 + dn * 2
        k  == Fx((a \div 10^6) + (lo \div FxUnit), lo % FxUnit)
    IN  FxSub(FxAdd(k, Fx(149, 0)), Fx(273, 15000000))

\* ImageCollection(...).filterBounds(...).filter(...).sort(...).first(): the client
\* library returns an ee.Image object for the query, whatever the collection holds
ImageCollection_first(sat) == [is_none |-> FALSE]

\* lst_celsius.reduceRegion(mean, area_of_interest, 30).getInfo() on the first
\* image of the filtered collection: the first of no image is null, so select fails
heat_stats(sat) ==
    IF sat.fault
    THEN Exception("EEException", "Computation failed.")
    ELSE IF sat.images = 0
    THEN Exception("EEException", "Image.select: Parameter 'input' is required.")
    ELSE IF sat.masked
    THEN Return(None)
    ELSE Return(Some(scale_thermal(sat.dn)))

\* lines 110-143: the try block of get_heat_map_real
heat_map_try(name, resolved, ready, sat) ==
    IF resolved.kind # "ok" THEN [out |-> resolved, ee_calls |-> 0]
    ELSE IF ee_Geometry_Point(ready).kind # "ok"
    THEN [out |-> ee_Geometry_Point(ready), ee_calls |-> 0]
    ELSE IF ImageCollection_first(sat).is_none
    THEN [out |-> HTTPException(404,
                     Detail("No valid satellite imagery found for the date range.", "")),
          ee_calls |-> 0]
    ELSE IF heat_stats(sat).kind # "ok"
    THEN [out |-> heat_stats(sat), ee_calls |-> 1]
    ELSE IF heat_stats(sat).value.none
    THEN [out |-> HTTPException(404, Detail("Could not calculate temperature.", "")),
          ee_calls |-> 1]
    ELSE [out |-> Return(
            [city |-> title(name),
             location |-> [lat |-> resolved.value[1], lon |-> resolved.value[2]],
             avg_temp |-> Format(heat_stats(sat).value, 2),
             data_source |-> "Landsat 9 Satellite"]),
          ee_calls |-> 1]

(***************************************************************************)
(* The simulated endpoints.  r is the draw of the random generator.        *)
(***************************************************************************)
randint(lo, hi, r) == lo + (r % (hi - lo + 1))

choice(seq, r) == seq[1 + (r % Len(seq))]

Location(resolved) == [lat |-> resolved.value[1], lon |-> resolved.value[2]]

get_city_overview(name, resolved, r) ==
    IF resolved.kind # "ok" THEN resolved
    ELSE Return([city |-> title(name), country |-> "Global",
                 temperature |-> randint(250, 320, r),
                 green_cover |-> randint(40, 65, r),
                 flood_risk |-> randint(5, 25, r),
                 aqi |-> randint(40, 90, r),
                 risk_level |-> choice(<<"Low Risk", "Medium Risk">>, r)])

get_flood_risk(name, resolved, r) ==
    IF resolved.kind # "ok" THEN resolved
    ELSE Return([city |-> title(name), location |-> Location(resolved),
                 risk_score |-> randint(10, 40, r),
                 high_risk_zones |-> randint(1, 10, r),
                 avg_elevation |-> randint(40, 60, r)])

get_air_quality(name, resolved, r) ==
    IF resolved.kind # "ok" THEN resolved
    ELSE Return([city |-> title(name), location |-> Location(resolved),
                 avg_aqi |-> randint(30, 150, r),
                 unhealthy_sensors |-> randint(0, 5, r),
                 main_pollutant |-> choice(<<"PM2.5", "O3", "NO2">>, r)])

get_report_card(name, resolved, r) ==
    IF resolved.kind # "ok" THEN resolved
    ELSE Return([city |-> title(name), location |-> Location(resolved),
                 overall_score |-> randint(60, 85, r),
                 summary |-> "This is a simulated summary.",
                 grades |-> [air_quality |-> "C+", green_cover |-> "A-"]])

get_simulation ==
    Return([impact |-> [temperature |-> [current |-> 251, change |-> -25],
                        aqi |-> [current |-> 83, change |-> -20]],
            benefits |-> [co2_absorbed |-> "150 Tons/year", investment |-> "$500K"]])

(***************************************************************************)
(* One request to the service.                                             *)
(***************************************************************************)
RealEndpoints == {"greencover", "heatmap"}

SimulatedEndpoints == {"overview", "floodrisk", "airquality", "reportcard", "simulate"}

\* What the web framework sends for an endpoint's outcome: the return value as
\* 200, an HTTPException as its status and detail, anything else as a bare 500.
http_response(o) ==
    IF o.kind = "ok" THEN [status |-> 200, detail |-> NoDetail, body |-> o.value]
    ELSE IF o.kind = "http" THEN [status |-> o.status, detail |-> o.detail, body |-> NoValue]
    ELSE [status |-> 500, detail |-> Detail("Internal Server Error", ""), body |-> NoValue]

\* the endpoint function of `endpoint` run on city `name`: the response, the
\* resolver's outcome and the numbers of geocoding and platform calls
Serve(endpoint, name, api_key, ready, reply, sat, r) ==
    LET res == IF endpoint = "simulate"
               THEN [out |-> NotCalled, geo_calls |-> 0]
               ELSE get_city_coords(name, api_key, reply)
        run == CASE endpoint = "greencover" ->
                      LET t == green_cover_try(name, res.out, ready, sat)
                      IN  [out |-> endpoint_except(t.out), ee_calls |-> t.ee_calls]
                 [] endpoint = "heatmap" ->
                      LET t == heat_map_try(name, res.out, ready, sat)
                      IN  [out |-> endpoint_except(t.out), ee_calls |-> t.ee_calls]
                 [] endpoint = "overview" ->
                      [out |-> get_city_overview(name, res.out, r), ee_calls |-> 0]
                 [] endpoint = "floodrisk" ->
                      [out |-> get_flood_risk(name, res.out, r), ee_calls |-> 0]
                 [] endpoint = "airquality" ->
                      [out |-> get_air_quality(name, res.out, r), ee_calls |-> 0]
                 [] endpoint = "reportcard" ->
                      [out |-> get_report_card(name, res.out, r), ee_calls |-> 0]
                 [] endpoint = "simulate" ->
                      [out |-> get_simulation, ee_calls |-> 0]
    IN  [resp |-> http_response(run.out), resolved |-> res.out,
         geo_calls |-> res.geo_calls, ee_calls |-> run.ee_calls]

\* the requests the service can have handled for `endpoint` and `name`, one per
\* answer of the geocoding API, state of the platform and draw of the generator
\* (each taken only where the endpoint function consumes it)
Handled(endpoint, name, api_key, ready) ==
    UNION {
      UNION {
        { [endpoint |-> endpoint, city |-> name, reply |-> reply, sat |-> sat, r |-> r,
           served |-> Serve(endpoint, name, api_key, ready, reply, sat, r)] :
            r \in IF endpoint \in SimulatedEndpoints \ {"simulate"}
                     /\ Serve(endpoint, name, api_key, ready, reply, sat, 0).resp.status = 200
                  THEN 0..MaxRandom ELSE {0} } :
        sat \in IF Serve(endpoint, name, api_key, ready, reply, NoSat, 0).ee_calls = 0
                THEN {NoSat}
                ELSE IF endpoint = "greencover" THEN GreenSat ELSE HeatSat } :
      reply \in IF Serve(endpoint, name, api_key, ready, NoReply, NoSat, 0).geo_calls = 0
                THEN {NoReply} ELSE GeoReplies }

NoRequest ==
    [endpoint |-> "", city |-> <<>>, reply |-> NoReply, sat |-> NoSat, r |-> 0,
     served |-> [resp |-> [status |-> 0, detail |-> NoDetail, body |-> NoValue],
                 resolved |-> NotCalled, geo_calls |-> 0, ee_calls |-> 0]]

(***************************************************************************)
(* src/main.py: start of the service process.                              *)
(***************************************************************************)
\* lines 10-28: the environment is read and ee.Initialize is tried; a failure is
\* printed and the module goes on to define the endpoints
ModuleInit ==
    /\ svc = "boot"
    /\ svc' = "serving"
    /\ ee_ready' \in IF env.project THEN BOOLEAN ELSE {FALSE}
    /\ UNCHANGED <<env, page, city, pc, event, action, shown, banner, last>>

(***************************************************************************)
(* src/app.py: the dashboard script.  Every user action runs the script    *)
(* from the top; st.rerun() abandons the run and starts another one with   *)
(* no widget event.                                                        *)
(***************************************************************************)
Pages == {"City Search", "Heat Map", "Flood Risk", "Green Cover", "Air Quality",
          "Simulation", "Report Card"}

AnalysisEndpoint ==
    [p \in {"Heat Map", "Flood Risk", "Green Cover", "Air Quality"} |->
        CASE p = "Heat Map" -> "heatmap"
          [] p = "Flood Risk" -> "floodrisk"
          [] p = "Green Cover" -> "greencover"
          [] p = "Air Quality" -> "airquality"]

\* render_overview_card("Tokyo"), ("London"), ("Mumbai")
KeyCities == << <<"T","o","k","y","o">>, <<"L","o","n","d","o","n">>,
                <<"M","u","m","b","a","i">> >>

CardPc == <<"card1", "card2", "card3">>

\* what the user types in the search box
Queries ==
    { <<>>,
      <<"T","O","K","Y","O">>,
      <<"N","e","w"," ","y","o","r","k">>,
      <<"S","h","i","m","o","g","a">>,
      <<"c","h","a","l","l","a","K","E","R","E">>,
      <<"m","u","m","b","a","i">>,
      <<"P","a","r","i","s">> }

NoEvent == [kind |-> "none", page |-> "", query |-> <<>>, card |-> 0]

\* a user action starts a script run with its widget event
Start(ev) ==
    /\ pc = "idle"
    /\ pc' = "top"
    /\ event' = ev
    /\ action' = [kind |-> ev.kind, card |-> ev.card, calls |-> 0, run_calls |-> 0]
    /\ last' = NoRequest
    /\ UNCHANGED <<env, svc, ee_ready, page, city, shown, banner>>

\* the page is opened, or the script runs again with no button pressed
Load == Start(NoEvent)

\* a sidebar button (on screen once the script has run)
ClickNav ==
    \E p \in Pages :
        /\ page # ""
        /\ Start([NoEvent EXCEPT !.kind = "nav", !.page = p])

\* the Search button of the City Search page
ClickSearch ==
    \E q \in Queries :
        /\ page = "City Search"
        /\ Start([NoEvent EXCEPT !.kind = "search", !.query = q])

\* the "View Full Analysis" button of an overview card on screen
ClickView ==
    \E k \in shown :
        Start([NoEvent EXCEPT !.kind = "view", !.card = k])

\* lines 195-215: session default, sidebar, routing
ScriptTop ==
    /\ pc = "top"
    /\ shown' = {}
    /\ banner' = "none"
    /\ action' = [action EXCEPT !.run_calls = 0]
    /\ IF event.kind = "nav"
       THEN /\ page' = event.page
            /\ event' = NoEvent
            /\ pc' = "top"
       ELSE /\ page' = IF page = "" THEN "City Search" ELSE page
            /\ event' = event
            /\ pc' = CASE page' = "City Search" -> "search"
                       [] page' \in DOMAIN AnalysisEndpoint -> "analysis"
                       [] page' = "Report Card" -> "report"
                       [] page' = "Simulation" -> "simulator"
    /\ UNCHANGED <<env, svc, ee_ready, city, last>>

\* lines 72-84, get_api_data: the outcomes of one GET to the service, each with
\* the request as the service handled it, the banner shown and the data returned
get_api_data(endpoint, name) ==
    IF svc # "serving"
    THEN { [last |-> last, banner |-> "api_error", ok |-> FALSE, data |-> NoValue] }
    ELSE UNION {
           { [last |-> h, banner |-> "timeout", ok |-> FALSE, data |-> NoValue],
             IF h.served.resp.status = 200
             THEN [last |-> h, banner |-> "none", ok |-> TRUE, data |-> h.served.resp.body]
             ELSE [last |-> h, banner |-> "api_error", ok |-> FALSE, data |-> NoValue] } :
           h \in Handled(endpoint, name, env.api_key, ee_ready) }

\* lines 110-123, render_city_search up to the cards
RenderCitySearch ==
    /\ pc = "search"
    /\ IF event.kind = "search" /\ event.query # <<>>
       THEN /\ city' = event.query
            /\ page' = "Heat Map"
            /\ event' = NoEvent
            /\ pc' = "top"
       ELSE /\ pc' = CardPc[1]
            /\ UNCHANGED <<city, page, event>>
    /\ UNCHANGED <<env, svc, ee_ready, action, shown, banner, last>>

\* lines 89-105, render_overview_card, for the k-th key city
RenderOverviewCard ==
    \E k \in 1..3 :
        /\ pc = CardPc[k]
        /\ \E o \in get_api_data("overview", KeyCities[k]) :
            /\ last' = o.last
            /\ banner' = o.banner
            /\ action' = [action EXCEPT !.calls = @ + 1, !.run_calls = @ + 1]
            /\ IF o.ok /\ event.kind = "view" /\ event.card = k
               THEN /\ city' = o.data.city
                    /\ page' = "Heat Map"
                    /\ event' = NoEvent
                    /\ pc' = "top"
                    /\ shown' = shown \cup {k}
               ELSE /\ pc' = IF k < 3 THEN CardPc[k + 1] ELSE "idle"
                    /\ shown' = IF o.ok THEN shown \cup {k} ELSE shown
                    /\ UNCHANGED <<city, page, event>>
        /\ UNCHANGED <<env, svc, ee_ready>>

\* st.session_state.get("city", "London")
SessionCity == IF city = <<>> THEN KeyCities[2] ELSE city

\* the rest of a page function after its single get_api_data call
PageCall(endpoint) ==
    /\ \E o \in get_api_data(endpoint, SessionCity) :
        /\ last' = o.last
        /\ banner' = o.banner
    /\ action' = [action EXCEPT !.calls = @ + 1, !.run_calls = @ + 1]
    /\ pc' = "idle"
    /\ UNCHANGED <<env, svc, ee_ready, page, city, event, shown>>

\* lines 129-147, render_analysis_page
RenderAnalysisPage ==
    /\ pc = "analysis"
    /\ PageCall(AnalysisEndpoint[page])

\* lines 172-182, render_report_card
RenderReportCard ==
    /\ pc = "report"
    /\ PageCall("reportcard")

\* lines 184-191, render_simulator
RenderSimulator ==
    /\ pc = "simulator"
    /\ PageCall("simulate")

(***************************************************************************)
(* The system.                                                             *)
(***************************************************************************)
Init ==
    /\ env \in [api_key : BOOLEAN, project : BOOLEAN]
    /\ svc = "boot"
    /\ ee_ready = FALSE
    /\ page = ""
    /\ city = <<>>
    /\ pc = "idle"
    /\ event = NoEvent
    /\ action = [kind |-> "none", card |-> 0, calls |-> 0, run_calls |-> 0]
    /\ shown = {}
    /\ banner = "none"
    /\ last = NoRequest

Next ==
    \/ ModuleInit
    \/ Load
    \/ ClickNav
    \/ ClickSearch
    \/ ClickView
    \/ ScriptTop
    \/ RenderCitySearch
    \/ RenderOverviewCard
    \/ RenderAnalysisPage
    \/ RenderReportCard
    \/ RenderSimulator

Spec == Init /\ [][Next]_vars

(***************************************************************************)
(* Properties.  They read the request the service handled last: its        *)
(* inputs (city, reply of the geocoding API, state of the platform) and    *)
(* what the endpoint function made of them.                                *)
(***************************************************************************)
Resolved == last.served.resolved

Resp == last.served.resp

\* the service ran get_city_coords for the last request
ResolverRan == last.endpoint \in (RealEndpoints \cup SimulatedEndpoints) \ {"simulate"}

\* the last request's city is a key of the static table once lower-cased
Listed == lower(last.city) \in DOMAIN known_cities

\* the geocoding call of the last request was made and failed
GeocodingCallFailed == last.reply.kind \in {"http_status", "timeout", "connection"}

\* the platform query of the last request was sent
QuerySent == last.sat # NoSat

\* C1: for a city whose lower-cased name is a key of the static table, in any
\* letter case, the resolver returns the table's pair and issues no geocoding
\* call, whatever the API key and the geocoding service; Tokyo is (35.6762, 139.6503).
C1_KnownCityFixedCoords ==
    (ResolverRan /\ Listed) =>
        /\ Resolved = Return(known_cities[lower(last.city)])
        /\ last.served.geo_calls = 0
        /\ last.reply = NoReply
        /\ (lower(last.city) = tokyo => Resolved.value = <<356762, 1396503>>)

C1_Witness ==
    /\ ResolverRan
    /\ last.city = <<"T","O","K","Y","O">>
    /\ ~env.api_key
    /\ Resolved.value = <<356762, 1396503>>

\* C2 as stated: for an unlisted city, whenever geocoding is unavailable (no API
\* key to call it with) or the geocoding call fails, the resolver fails with 503.
C2_Original ==
    (ResolverRan /\ ~Listed /\ (~env.api_key \/ GeocodingCallFailed)) =>
        (Resolved.kind = "http" /\ Resolved.status = 503)

\* C2 amended: for an unlisted city with the API key configured, a geocoding call
\* that fails (connection, time-out, non-success status) makes the resolver fail
\* with 503 "Geocoding service is unavailable."; with no API key the resolver
\* fails with 500 before any call.  Neither case returns a coordinate.
C2_UnavailableIs503WithKey ==
    (ResolverRan /\ ~Listed) =>
        /\ (env.api_key /\ GeocodingCallFailed) =>
              Resolved = HTTPException(503, Detail("Geocoding service is unavailable.", ""))
        /\ ~env.api_key =>
              /\ Resolved.kind = "http" /\ Resolved.status = 500
              /\ last.served.geo_calls = 0
        /\ (~env.api_key \/ GeocodingCallFailed) => Resp.status # 200

C2_Witness ==
    /\ ResolverRan /\ ~Listed
    /\ env.api_key
    /\ last.reply.kind = "timeout"
    /\ Resolved.status = 503

\* C3: for an unlisted city, a geocoding call that succeeds with an empty result
\* set makes the resolver fail with 404, which its handler for request errors
\* does not turn into 503.
C3_EmptyResultIs404 ==
    (ResolverRan /\ ~Listed /\ last.reply = [kind |-> "json", data |-> <<>>]) =>
        /\ Resolved.kind = "http"
        /\ Resolved.status = 404
        /\ Resolved.detail.text = "City '{city_name}' not found."

C3_Witness ==
    /\ ResolverRan /\ ~Listed
    /\ last.reply = [kind |-> "json", data |-> <<>>]
    /\ Resolved.status = 404
    /\ Resp.status = 404

\* C4 as stated: every outcome of the resolver is a coordinate, a 404 or a 503.
C4_Original ==
    ResolverRan =>
        \/ Resolved.kind = "ok"
        \/ Resolved.kind = "http" /\ Resolved.status \in {404, 503}

\* C4 amended: every outcome of the resolver is a coordinate, a 404, a 503, a 500
\* (exactly when the city is unlisted and no API key is configured) or an
\* uncaught lookup error (exactly when a successful reply's first entry lacks
\* lat or lon).
C4_ResolverOutcomes ==
    ResolverRan =>
        /\ \/ Resolved.kind = "ok" /\ Len(Resolved.value) = 2
           \/ Resolved.kind = "http" /\ Resolved.status \in {404, 500, 503}
           \/ Resolved.kind = "exc" /\ Resolved.cls = "KeyError"
        /\ (Resolved.kind = "http" /\ Resolved.status = 500) <=> (~Listed /\ ~env.api_key)
        /\ Resolved.kind = "exc" <=>
              /\ last.reply.kind = "json"
              /\ last.reply.data # <<>>
              /\ ~({"lat", "lon"} \subseteq DOMAIN last.reply.data[1])

C4_Witness ==
    /\ ResolverRan /\ ~Listed
    /\ ~env.api_key
    /\ Resolved.status = 500
    /\ Resolved.detail.text = "OpenWeatherMap API key is not configured."

\* C5: in the heatmap endpoint, for a resolved city, if no image passes the
\* filter or the reduction yields no value for the temperature band, the request
\* fails with 404, not with 500 or a success payload.
C5_HeatNoImageryIs404 ==
    (/\ last.endpoint = "heatmap"
     /\ Resolved.kind = "ok"
     /\ QuerySent /\ ~last.sat.fault
     /\ (last.sat.images = 0 \/ last.sat.masked)) =>
        Resp.status = 404

\* C6: in the greencover endpoint, for a resolved city, if the reduction yields no
\* NDVI value, as for a region with no cloud-free image in the window, the
\* response is 404 "could not calculate" with no success payload.
C6_GreenNoImageryIs404 ==
    (/\ last.endpoint = "greencover"
     /\ Resolved.kind = "ok"
     /\ QuerySent /\ ~last.sat.fault
     /\ (last.sat.images = 0 \/ last.sat.masked)) =>
        /\ Resp.status = 404
        /\ Resp.detail.text = "Could not calculate NDVI for this area."
        /\ Resp.body = NoValue

\* a user action has been processed to the end
ActionDone == pc = "idle" /\ action.kind # "none"

\* C7 as stated: every dashboard action makes exactly one service call, and every
\* service request makes exactly one call to the geocoding API or the platform.
C7_Original ==
    /\ ActionDone => action.calls = 1
    /\ last.endpoint # "" => last.served.geo_calls + last.served.ee_calls = 1

\* C7 amended: a script run that renders an analysis, report-card or simulator
\* page makes exactly one service call and one that renders City Search to its
\* end makes three (one overview per key city); a user action makes between one
\* and four (k + 1 when the k-th card's View button takes effect).  A service
\* request makes at most one geocoding call (exactly one iff the endpoint
\* resolves the city, the city is unlisted and the API key is configured) and at
\* most one platform query (exactly one iff the endpoint is greencover or
\* heatmap, the city resolved and the platform was initialized).
C7_CallCounts ==
    /\ ActionDone =>
          /\ action.run_calls = IF page = "City Search" THEN 3 ELSE 1
          /\ action.calls \in 1..4
          /\ action.calls =
                IF action.kind = "view" /\ page = "Heat Map"
                THEN action.card + 1 ELSE action.run_calls
    /\ last.endpoint # "" =>
          /\ last.served.geo_calls =
                IF ResolverRan /\ ~Listed /\ env.api_key THEN 1 ELSE 0
          /\ last.served.ee_calls =
                IF last.endpoint \in RealEndpoints /\ Resolved.kind = "ok" /\ ee_ready
                THEN 1 ELSE 0

C7_Witness ==
    /\ ActionDone
    /\ action.kind = "view" /\ action.card = 3
    /\ action.calls = 4
    /\ last.endpoint = "heatmap"
    /\ last.served.geo_calls = 0
    /\ last.served.ee_calls = 1

\* a formatted float as a signed number of its last digit's units
Signed(f) == IF f.neg THEN -f.digits ELSE f.digits

\* C8: when greencover succeeds, the percentage is (ndvi + 1) * 50 to two
\* decimals: 50.00 for ndvi = 0, 0.00 for ndvi = -1, 100.00 for ndvi = 1, within
\* [0, 100] for every ndvi in [-1, 1], and computed from the ndvi that is reported
\* as avg_ndvi.  (With ndvi = (b8 - b4) / (b8 + b4), (ndvi + 1) * 50 is
\* 100 * b8 / (b8 + b4).)
C8_PercentageFromNdvi ==
    (last.endpoint = "greencover" /\ Resp.status = 200) =>
        LET cov == Signed(Resp.body.avg_coverage)
            nd  == Signed(Resp.body.avg_ndvi)
            b8  == last.sat.b8
            b4  == last.sat.b4
            d   == 2 * (cov * (b8 + b4) - 10000 * b8)
        IN  /\ ~Resp.body.avg_coverage.neg
            /\ cov \in 0..10000
            /\ nd \in -10000..10000
            /\ (b8 = b4 => cov = 5000 /\ nd = 0)
            /\ (b8 = 0 => cov = 0 /\ nd = -10000)
            /\ (b4 = 0 => cov = 10000 /\ nd = 10000)
            /\ d <= b8 + b4 /\ -d <= b8 + b4
            /\ 2 * cov - nd - 10000 \in -1..1

C8_Witness ==
    /\ last.endpoint = "greencover" /\ Resp.status = 200
    /\ last.sat.b8 = 2 /\ last.sat.b4 = 1
    /\ Resp.body.avg_coverage = [neg |-> FALSE, digits |-> 6667]
    /\ Resp.body.avg_ndvi = [neg |-> FALSE, digits |-> 3333]

\* C9: in greencover and heatmap, a failure raised by the resolver or by the
\* pipeline's own NotFound check reaches the client with its status and detail
\* unchanged, every other exception is returned as 500 "An Earth Engine error
\* occurred", and so every error status is 404, 500 or 503.
C9_ErrorsOfRealEndpoints ==
    last.endpoint \in RealEndpoints =>
        /\ Resolved.kind = "http" =>
              /\ Resp.status = Resolved.status
              /\ Resp.detail = Resolved.detail
              /\ Resp.body = NoValue
        /\ (Resolved.kind = "ok" /\ QuerySent /\ ~last.sat.fault
              /\ last.sat.images > 0 /\ last.sat.masked) =>
              /\ Resp.status = 404
              /\ Resp.detail.text =
                    IF last.endpoint = "greencover"
                    THEN "Could not calculate NDVI for this area."
                    ELSE "Could not calculate temperature."
        /\ (\/ Resolved.kind = "exc"
            \/ Resolved.kind = "ok" /\ ~ee_ready
            \/ Resolved.kind = "ok" /\ QuerySent /\ (last.sat.fault \/ last.sat.images = 0)) =>
              /\ Resp.status = 500
              /\ Resp.detail.text = "An Earth Engine error occurred: "
              /\ Resp.detail.cause # ""
        /\ Resp.status \in {200, 404, 500, 503}

C9_Witness ==
    /\ last.endpoint = "heatmap"
    /\ Resolved.kind = "http" /\ Resolved.status = 503
    /\ Resp.status = 503
    /\ Resp.detail.text = "Geocoding service is unavailable."

\* C10: when the platform's initialization failed at startup, the process serves
\* all the same: every greencover and heatmap request for a resolved city ends in
\* 500, never in a payload, and the simulated endpoints answer what they answer
\* after a successful initialization.
C10_ServesWithoutPlatform ==
    /\ (svc = "serving" /\ ~env.project) => ~ee_ready
    /\ (~ee_ready /\ last.endpoint \in RealEndpoints /\ Resolved.kind = "ok") =>
          /\ Resp.status = 500
          /\ Resp.body = NoValue
          /\ last.served.ee_calls = 0
    /\ last.endpoint \in SimulatedEndpoints =>
          /\ last.served =
                Serve(last.endpoint, last.city, env.api_key, TRUE,
                      last.reply, last.sat, last.r)
          /\ last.served =
                Serve(last.endpoint, last.city, env.api_key, FALSE,
                      last.reply, last.sat, last.r)

C10_Witness ==
    /\ svc = "serving" /\ ~env.project /\ ~ee_ready
    /\ last.endpoint = "greencover"
    /\ Resolved.kind = "ok"
    /\ Resp.status = 500

====
